---- MODULE Spec2Model ----
(***************************************************************************)
(* Model of the Application Gateway ingress controller's configuration     *)
(* builder (package appgw: Build, PreBuildValidate, PostBuildValidate,      *)
(* resolvePortName, resolveIstioPortName, generateListenerID) and of its    *)
(* brownfield layer (package brownfield: PruneIngressRules,                 *)
(* GetBlacklistedListeners).                                                *)
(***************************************************************************)
EXTENDS Naturals, Sequences, FiniteSets

VARIABLES
    pc,          \* position of Build: the stage it is about to call, or "done"
    original,    \* the caller's gateway, handed to NewConfigBuilder by pointer
    originalBefore, \* the caller's gateway as it was at NewConfigBuilder
    appGw,       \* c.appGw, the builder's gateway configuration
    calls,       \* the stage calls Build has made so far, with their results
    buildRet,    \* what Build returned: (*ApplicationGateway, error)
    valEntry,    \* which validation entry point ran
    valFns,      \* the validator list handed to runValidationFunctions
    valInvoked,  \* the validators invoked, in invocation order
    valRet,      \* the error returned by the validation entry point
    ing,         \* the ingress handed to PruneIngressRules
    ingBefore,   \* the same ingress as it was before the call
    prohibitedTargets, \* the prohibited targets of the call
    pruned,      \* the result of PruneIngressRules
    er,          \* ExistingResources: listeners and prohibited targets
    partition,   \* the result of GetBlacklistedListeners
    lookup,      \* what k8sContext.GetEndpointsByService returns for the service key
    resolved,    \* the result of resolvePortName / resolveIstioPortName
    listenerIDs  \* the calls of generateListenerID made so far, with their results

vars == <<pc, original, originalBefore, appGw, calls, buildRet,
          valEntry, valFns, valInvoked, valRet,
          ing, ingBefore, prohibitedTargets, pruned,
          er, partition,
          lookup, resolved, listenerIDs>>

buildVars == <<pc, original, originalBefore, appGw, calls, buildRet>>
valVars   == <<valEntry, valFns, valInvoked, valRet>>
pruneVars == <<ing, ingBefore, prohibitedTargets, pruned>>
lstVars   == <<er, partition>>
portVars  == <<lookup, resolved>>
lidVars   == <<listenerIDs>>

\* The error value nil.
NoErr == "nil"

----------------------------------------------------------------------------
(* appGwConfigBuilder.Build                                                *)

managedByK8sIngress == "managed-by-k8s-ingress"

\* fmt.Sprintf("%s/%s/%s", version.Version, version.GitCommit, version.BuildDate)
VersionTag == "Version/GitCommit/BuildDate"

TagKeys   == {managedByK8sIngress, "owner", "env"}
TagValues == {"old", "user"}

\* map[string]*string, which may be nil
NilTags == [nil |-> TRUE, kv |-> <<>>]
TagMaps == {NilTags} \cup
           { [nil |-> FALSE, kv |-> m] :
               m \in UNION { [S -> TagValues] : S \in SUBSET TagKeys } }

\* The errors a stage can return (the original cause), besides nil.
StageCauses == {"cache lookup failed", "sdk error"}

Collections == {"Probes", "BackendHTTPSettingsCollection", "BackendAddressPools",
                "HTTPListeners", "RequestRoutingRules"}

\* The collection each stage writes into the gateway configuration.
StageCollection(s) ==
    CASE s = "HealthProbesCollection"        -> "Probes"
      [] s = "BackendHTTPSettingsCollection" -> "BackendHTTPSettingsCollection"
      [] s = "BackendAddressPools"           -> "BackendAddressPools"
      [] s = "Listeners"                     -> "HTTPListeners"
      [] s = "RequestRoutingRules"           -> "RequestRoutingRules"

FirstStage == "HealthProbesCollection"

NextStageSwapped(s) ==
    CASE s = "HealthProbesCollection"        -> "BackendAddressPools"
      [] s = "BackendAddressPools"           -> "BackendHTTPSettingsCollection"
      [] s = "BackendHTTPSettingsCollection" -> "Listeners"
      [] s = "Listeners"                     -> "RequestRoutingRules"
      [] s = "RequestRoutingRules"           -> "addTags"

\* The statement Build goes on to after stage s returned nil.
NextStage(s) ==
    CASE s = "HealthProbesCollection"        -> "BackendHTTPSettingsCollection"
      [] s = "BackendHTTPSettingsCollection" -> "BackendAddressPools"
      [] s = "BackendAddressPools"           -> "Listeners"
      [] s = "Listeners"                     -> "RequestRoutingRules"
      [] s = "RequestRoutingRules"           -> "addTags"

\* errors.New(...) of the failing stage
StageError(s) ==
    CASE s = "HealthProbesCollection"        -> "unable to generate health probes"
      [] s = "BackendHTTPSettingsCollection" -> "unable to generate backend http settings"
      [] s = "BackendAddressPools"           -> "unable to generate backend address pools"
      [] s = "Listeners"                     -> "unable to generate frontend listeners"
      [] s = "RequestRoutingRules"           -> "unable to generate request routing rules"

NilGw == [nil |-> TRUE]
Ptr(gw) == [nil |-> FALSE, gw |-> gw]

NotReturned == [returned |-> FALSE]

FailReturnVerbatim(s, err) == [returned |-> TRUE, gw |-> NilGw, err |-> err]

\* return nil, errors.New("unable to generate ...")
FailReturn(s, err) == [returned |-> TRUE, gw |-> NilGw, err |-> StageError(s)]

addTagsReplace(gw) ==
    [gw EXCEPT !.Tags = [nil |-> FALSE,
                         kv  |-> [k \in {managedByK8sIngress} |-> VersionTag]]]

addTags(gw) ==
    LET tags == IF gw.Tags.nil
                THEN [nil |-> FALSE, kv |-> <<>>]       \* make(map[string]*string)
                ELSE gw.Tags
    IN [gw EXCEPT !.Tags =
          [nil |-> FALSE,
           kv  |-> [k \in (DOMAIN tags.kv) \cup {managedByK8sIngress} |->
                      IF k = managedByK8sIngress THEN VersionTag ELSE tags.kv[k]]]]

\* What the caller's gateway holds once the builder's copy has become gw.
\* appGw: *original copies the struct, not what its fields point to: the
\* collections live behind the embedded *ApplicationGatewayPropertiesFormat,
\* which both gateways share, and a Tags map that was not nil is shared too.
\* When Tags was nil, addTags makes a map that only the builder's copy holds.
Shared(orig, gw) ==
    [c \in DOMAIN orig |->
        IF c = "Tags"
        THEN IF orig.Tags.nil THEN orig.Tags ELSE gw.Tags
        ELSE gw[c]]

\* One stage call of Build, with the error check that follows it.  The stage
\* returns err; a stage that fails may or may not have written its collection.
Stage(s) ==
    /\ pc = s
    /\ \E err \in StageCauses \cup {NoErr}, wrote \in BOOLEAN :
        /\ (err = NoErr) => wrote
        /\ calls' = Append(calls, [stage |-> s, err |-> err])
        /\ appGw' = IF wrote
                    THEN [appGw EXCEPT ![StageCollection(s)] = "generated"]
                    ELSE appGw
        /\ original' = Shared(original, appGw')
        /\ IF err # NoErr
           THEN /\ buildRet' = FailReturn(s, err)
                /\ pc' = "done"
           ELSE /\ buildRet' = buildRet
                /\ pc' = NextStage(s)
    /\ UNCHANGED <<originalBefore, valVars, pruneVars, lstVars, portVars, lidVars>>

HealthProbesCollection        == Stage("HealthProbesCollection")
BackendHTTPSettingsCollection == Stage("BackendHTTPSettingsCollection")
BackendAddressPools           == Stage("BackendAddressPools")
Listeners                     == Stage("Listeners")
RequestRoutingRules           == Stage("RequestRoutingRules")

\* c.addTags(); return &c.appGw, nil
AddTagsAndReturn ==
    /\ pc = "addTags"
    /\ calls' = Append(calls, [stage |-> "addTags", err |-> NoErr])
    /\ appGw' = addTags(appGw)
    /\ original' = Shared(original, appGw')
    /\ buildRet' = [returned |-> TRUE, gw |-> Ptr(appGw'), err |-> NoErr]
    /\ pc' = "done"
    /\ UNCHANGED <<originalBefore, valVars, pruneVars, lstVars, portVars, lidVars>>

OriginalGateways ==
    { [Probes |-> "original", BackendHTTPSettingsCollection |-> "original",
       BackendAddressPools |-> "original", HTTPListeners |-> "original",
       RequestRoutingRules |-> "original", Tags |-> t] : t \in TagMaps }

BuildIdle ==
    /\ pc = "done"
    /\ original \in {[Probes |-> "original", BackendHTTPSettingsCollection |-> "original",
                      BackendAddressPools |-> "original", HTTPListeners |-> "original",
                      RequestRoutingRules |-> "original", Tags |-> NilTags]}
    /\ originalBefore = original
    /\ appGw = original
    /\ calls = <<>>
    /\ buildRet = NotReturned

ValIdle ==
    /\ valEntry = "none"
    /\ valFns = <<>>
    /\ valInvoked = <<>>
    /\ valRet = "none"

PruneIdle ==
    /\ ing = [Rules |-> [nil |-> TRUE, elems |-> <<>>]]
    /\ ingBefore = ing
    /\ prohibitedTargets = <<>>
    /\ pruned = [called |-> FALSE]

LstIdle ==
    /\ er = [Listeners |-> <<>>, prohibitedTargets |-> <<>>]
    /\ partition = [called |-> FALSE]

PortIdle ==
    /\ lookup = [err |-> FALSE, nil |-> TRUE, Subsets |-> <<>>]
    /\ resolved = [called |-> FALSE]

LidIdle == listenerIDs = <<>>

\* NewConfigBuilder, followed by the call of Build.
InitBuild ==
    /\ original \in OriginalGateways
    /\ originalBefore = original
    /\ appGw = original
    /\ pc = FirstStage
    /\ calls = <<>>
    /\ buildRet = NotReturned
    /\ ValIdle /\ PruneIdle /\ LstIdle /\ PortIdle /\ LidIdle

NextBuild ==
    \/ HealthProbesCollection
    \/ BackendHTTPSettingsCollection
    \/ BackendAddressPools
    \/ Listeners
    \/ RequestRoutingRules
    \/ AddTagsAndReturn

SpecBuild == InitBuild /\ [][NextBuild]_vars

----------------------------------------------------------------------------
(* Properties of Build                                                     *)

\* The order of the stages as the specification declares it.
DeclaredOrder == <<"HealthProbesCollection", "BackendHTTPSettingsCollection",
                   "BackendAddressPools", "Listeners", "RequestRoutingRules",
                   "addTags">>

CalledAt(s) == { i \in 1..Len(calls) : calls[i].stage = s }

\* C1: in every run of Build the stages are called strictly in the order
\* health probes, backend HTTP settings, backend address pools, listeners,
\* request routing rules, tag finalization; a stage is called only after
\* every earlier stage has returned nil, so backend address pools are never
\* generated before backend HTTP settings, nor routing rules before listeners.
C1_StagesInOrder ==
    /\ Len(calls) <= Len(DeclaredOrder)
    /\ \A i \in 1..Len(calls) :
          /\ calls[i].stage = DeclaredOrder[i]
          /\ \A j \in 1..(i - 1) : calls[j].err = NoErr
    /\ \A i \in CalledAt("BackendAddressPools") :
          \E j \in 1..(i - 1) : calls[j] = [stage |-> "BackendHTTPSettingsCollection", err |-> NoErr]
    /\ \A i \in CalledAt("RequestRoutingRules") :
          \E j \in 1..(i - 1) : calls[j] = [stage |-> "Listeners", err |-> NoErr]

\* A complete run: all six stages have been called.
C1_Witness == Len(calls) = 6 /\ buildRet.returned

Failed == { i \in 1..Len(calls) : calls[i].err # NoErr }

\* C2: when a stage of Build returns an error the build is aborted: Build has
\* returned, the failing stage is the last one called, the management tag is
\* not stamped (the tags of the builder's gateway and of the caller's gateway
\* are those the gateway had at NewConfigBuilder), the returned configuration
\* is nil and the returned error is the fixed message of the failing stage,
\* not the error the stage returned.
C2_FailureAborts ==
    \A i \in Failed :
        /\ pc = "done"
        /\ buildRet.returned
        /\ i = Len(calls)
        /\ CalledAt("addTags") = {}
        /\ appGw.Tags = originalBefore.Tags
        /\ original.Tags = originalBefore.Tags
        /\ buildRet.gw = NilGw
        /\ buildRet.err = StageError(calls[i].stage)
        /\ buildRet.err # calls[i].err
        /\ buildRet.err \notin StageCauses

\* The third stage failed after the first two had written their collections.
C2_Witness ==
    /\ buildRet.returned
    /\ Len(calls) = 3
    /\ calls[3] = [stage |-> "BackendAddressPools", err |-> "sdk error"]
    /\ appGw.Probes = "generated"
    /\ ~originalBefore.Tags.nil

\* C3: Build returns a non-nil configuration exactly when it returns a nil
\* error; a returned configuration is the builder's configuration and carries
\* the management tag, stamped after all five stages succeeded; stamping
\* creates the tag map when it is absent and leaves every other tag as it was
\* at NewConfigBuilder.
C3_TaggedOnSuccess ==
    buildRet.returned =>
        /\ (~buildRet.gw.nil) <=> (buildRet.err = NoErr)
        /\ (~buildRet.gw.nil) =>
              LET gw == buildRet.gw.gw
                  before == IF originalBefore.Tags.nil
                            THEN {} ELSE DOMAIN originalBefore.Tags.kv
              IN /\ gw = appGw
                 /\ ~gw.Tags.nil
                 /\ DOMAIN gw.Tags.kv = before \cup {managedByK8sIngress}
                 /\ gw.Tags.kv[managedByK8sIngress] = VersionTag
                 /\ \A k \in before \ {managedByK8sIngress} :
                        gw.Tags.kv[k] = originalBefore.Tags.kv[k]
                 /\ Len(calls) = 6
                 /\ \A i \in 1..6 : calls[i].err = NoErr
                 /\ calls[6].stage = "addTags"
                 /\ \A c \in Collections : gw[c] = "generated"

\* A successful build of a gateway that already had the management tag and
\* another tag.
C3_Witness ==
    /\ buildRet.returned
    /\ buildRet.err = NoErr
    /\ ~originalBefore.Tags.nil
    /\ DOMAIN originalBefore.Tags.kv = {managedByK8sIngress, "owner"}
    /\ originalBefore.Tags.kv[managedByK8sIngress] = "old"
    /\ original.Tags = appGw.Tags

\* A successful build of a gateway whose tag map was nil.
C3_WitnessNilTags ==
    /\ buildRet.returned /\ buildRet.err = NoErr
    /\ originalBefore.Tags.nil /\ original.Tags.nil /\ ~appGw.Tags.nil

\* The caller's gateway and the builder's share what the copied struct points
\* to: the collections always, the tag map unless it was nil.
SharedWithOriginal ==
    /\ \A c \in Collections : original[c] = appGw[c]
    /\ original.Tags = IF originalBefore.Tags.nil THEN NilTags ELSE appGw.Tags

----------------------------------------------------------------------------
(* PreBuildValidate, PostBuildValidate, runValidationFunctions             *)

\* The longest validator list handed to runValidationFunctions.
MaxValidators == 4

\* The errors a validator can return, besides nil.
ValErrs == {"service definition invalid", "url path map invalid"}

\* A validator (valFunc) is modelled by its name and by the error it returns
\* on the builder's configuration and the context of the call.
Validator(name, result) == [name |-> name, result |-> result]

ValidatorLists ==
    UNION { [1..n -> { Validator("valFunc", r) : r \in ValErrs \cup {NoErr} }] :
              n \in 0..MaxValidators }

RECURSIVE runAllFrom(_, _, _, _)
runAllFrom(fns, i, invoked, last) ==
    IF i > Len(fns)
    THEN [err |-> last, invoked |-> invoked]
    ELSE runAllFrom(fns, i + 1, Append(invoked, i),
                    IF fns[i].result # NoErr THEN fns[i].result ELSE last)

runValidationFunctionsNoReturn(fns) == runAllFrom(fns, 1, <<>>, NoErr)

\* for _, fn := range validationFunctions { if err := fn(...); err != nil { return err } }
RECURSIVE runFrom(_, _, _)
runFrom(fns, i, invoked) ==
    IF i > Len(fns)
    THEN [err |-> NoErr, invoked |-> invoked]
    ELSE IF fns[i].result # NoErr
         THEN [err |-> fns[i].result, invoked |-> Append(invoked, i)]
         ELSE runFrom(fns, i + 1, Append(invoked, i))

\* The error returned and the positions of the validators invoked, in order.
runValidationFunctions(fns) == runFrom(fns, 1, <<>>)

Validate(entry, fns) ==
    LET r == runValidationFunctions(fns)
    IN /\ valEntry' = entry
       /\ valFns' = fns
       /\ valInvoked' = r.invoked
       /\ valRet' = r.err
       /\ UNCHANGED <<buildVars, pruneVars, lstVars, portVars, lidVars>>

PreBuildValidate ==
    \E r \in ValErrs \cup {NoErr} :
        Validate("PreBuildValidate", <<Validator("validateServiceDefinition", r)>>)

PostBuildValidate ==
    \E r \in ValErrs \cup {NoErr} :
        Validate("PostBuildValidate", <<Validator("validateURLPathMaps", r)>>)

\* runValidationFunctions on an arbitrary validator list.
RunValidationFunctions ==
    \E fns \in ValidatorLists : Validate("runValidationFunctions", fns)

InitValidate == BuildIdle /\ ValIdle /\ PruneIdle /\ LstIdle /\ PortIdle /\ LidIdle

NextValidate == PreBuildValidate \/ PostBuildValidate \/ RunValidationFunctions

SpecValidate == InitValidate /\ [][NextValidate]_vars

Failing(fns) == { i \in 1..Len(fns) : fns[i].result # NoErr }

Min(S) == CHOOSE x \in S : \A y \in S : x <= y

\* C4: the validation entry points run their validators in list order; the
\* first validator that fails is the last one invoked and its error is the
\* result; the result is nil if and only if every validator passed.
\* PreBuildValidate runs the list <<validateServiceDefinition>> and
\* PostBuildValidate the list <<validateURLPathMaps>>.
C4_FirstFailureReturned ==
    valEntry # "none" =>
        LET bad  == Failing(valFns)
            last == IF bad = {} THEN Len(valFns) ELSE Min(bad)
        IN /\ valInvoked = [i \in 1..last |-> i]
           /\ valRet = IF bad = {} THEN NoErr ELSE valFns[last].result
           /\ (valRet = NoErr) <=> (\A i \in 1..Len(valFns) : valFns[i].result = NoErr)
           /\ (valEntry = "PreBuildValidate") =>
                 Len(valFns) = 1 /\ valFns[1].name = "validateServiceDefinition"
           /\ (valEntry = "PostBuildValidate") =>
                 Len(valFns) = 1 /\ valFns[1].name = "validateURLPathMaps"

\* The second of four validators fails, and so would the third.
C4_Witness ==
    /\ valEntry = "runValidationFunctions"
    /\ Len(valFns) = 4
    /\ valFns[1].result = NoErr
    /\ valFns[2].result = "url path map invalid"
    /\ valFns[3].result = "service definition invalid"
    /\ valRet = "url path map invalid"
    /\ valInvoked = <<1, 2>>

----------------------------------------------------------------------------
(* brownfield.PruneIngressRules                                            *)

\* The most rules of an ingress and the most prohibited targets of a call.
MaxRules   == 2
MaxTargets == 2

RuleHosts   == {"a.com", "b.com"}
PathNames   == {"/fox", "/bar"}
TargetHosts == {"", "a.com"}

\* A Go slice: nil, or a backing array with elements.
NilSlice == [nil |-> TRUE, elems |-> <<>>]
Slice(elems) == [nil |-> FALSE, elems |-> elems]

\* The sequences over S without repetition.
Arrangements(S) ==
    UNION { { f \in [1..n -> S] : \A i, j \in 1..n : i # j => f[i] # f[j] } :
              n \in 0..Cardinality(S) }

\* v1beta1.HTTPIngressPath
IngressPath(p) == [Path |-> p, Backend |-> "service"]

\* v1beta1.IngressRule: no HTTP block, a nil path list, or a path list.
IngressRules ==
    { [Host |-> h, HTTP |-> [nil |-> TRUE]] : h \in RuleHosts } \cup
    { [Host |-> h, HTTP |-> [nil |-> FALSE, Paths |-> NilSlice]] : h \in RuleHosts } \cup
    { [Host |-> h, HTTP |-> [nil |-> FALSE,
                             Paths |-> Slice([i \in DOMAIN ps |-> IngressPath(ps[i])])]] :
        h \in RuleHosts, ps \in Arrangements(PathNames) }

\* v1beta1.Ingress, reduced to Spec.Rules
Ingresses ==
    { [Rules |-> NilSlice] } \cup
    { [Rules |-> Slice(rs)] : rs \in UNION { [1..n -> IngressRules] : n \in 0..MaxRules } }

\* ptv1.AzureIngressProhibitedTarget, reduced to Spec.Hostname and Spec.Paths
ProhibitedTargetPaths == {<<>>, <<"/fox">>, <<"/fox", "/bar">>}

\* The targets are of the three shapes the matching rule is defined on: no
\* hostname and no paths, a hostname and no paths, a hostname and paths.
ProhibitedTargets ==
    { pt \in { [Hostname |-> h, Paths |-> ps] :
                 h \in TargetHosts, ps \in ProhibitedTargetPaths } :
        pt.Hostname = "" => Len(pt.Paths) = 0 }

ProhibitedTargetLists == UNION { [1..n -> ProhibitedTargets] : n \in 0..MaxTargets }

\* brownfield.Target
Target(host, path) == [Hostname |-> host, Path |-> path]

\* The blacklist entries of one prohibited target: the host alone when the
\* target has no paths, else one (host, path) entry per path.
TargetEntries(pt) ==
    IF Len(pt.Paths) = 0
    THEN <<Target(pt.Hostname, "")>>
    ELSE [i \in 1..Len(pt.Paths) |-> Target(pt.Hostname, pt.Paths[i])]

RECURSIVE GetTargetBlacklist(_)
GetTargetBlacklist(pts) ==
    IF Len(pts) = 0 THEN <<>>
    ELSE TargetEntries(Head(pts)) \o GetTargetBlacklist(Tail(pts))

\* An entry without path covers every path of its host, and every target
\* when it has no host either; an entry with a path covers that (host, path).
EntryCovers(e, t) ==
    IF e.Path = ""
    THEN e.Hostname = "" \/ e.Hostname = t.Hostname
    ELSE e.Hostname = t.Hostname /\ e.Path = t.Path

IsBlacklisted(t, blacklist) ==
    \E i \in 1..Len(blacklist) : EntryCovers(blacklist[i], t)

prunePathsStale(host, paths, blacklist) ==
    SelectSeq(paths, LAMBDA path : ~IsBlacklisted(Target(host, ""), blacklist))

\* lines 52-58: the paths of the rule whose target is not blacklisted
RECURSIVE prunePathsFrom(_, _, _, _, _)
prunePathsFrom(host, paths, i, blacklist, kept) ==
    IF i > Len(paths) THEN kept
    ELSE IF IsBlacklisted(Target(host, paths[i].Path), blacklist)
         THEN prunePathsFrom(host, paths, i + 1, blacklist, kept)
         ELSE prunePathsFrom(host, paths, i + 1, blacklist, Append(kept, paths[i]))

prunePaths(host, paths, blacklist) == prunePathsFrom(host, paths, 1, blacklist, <<>>)

prunePathlessRuleAlways(rule, blacklist, rules) == Append(rules, rule)

\* lines 36-42: a rule whose path list is nil
prunePathlessRule(rule, blacklist, rules) ==
    IF IsBlacklisted(Target(rule.Host, ""), blacklist)
    THEN rules
    ELSE Append(rules, rule)

\* lines 29-62: the loop over the rules, from rule i on
RECURSIVE pruneRulesFrom(_, _, _, _)
pruneRulesFrom(rs, i, blacklist, rules) ==
    IF i > Len(rs) THEN rules
    ELSE LET rule == rs[i]
         IN IF rule.HTTP.nil
            THEN pruneRulesFrom(rs, i + 1, blacklist, rules)
            ELSE IF rule.HTTP.Paths.nil
            THEN pruneRulesFrom(rs, i + 1, blacklist,
                                prunePathlessRule(rule, blacklist, rules))
            ELSE LET newPaths == prunePaths(rule.Host, rule.HTTP.Paths.elems, blacklist)
                     newRule  == [Host |-> rule.Host,
                                  HTTP |-> [nil |-> FALSE, Paths |-> Slice(newPaths)]]
                 IN pruneRulesFrom(rs, i + 1, blacklist,
                                   IF Len(newPaths) > 0 THEN Append(rules, newRule)
                                                        ELSE rules)

\* What a call leaves behind: the ingress after the call, the returned rule
\* list, and whether the returned slice is the backing array of ing.Spec.Rules
\* (a nil slice has none).
PruneResult(ingAfter, rules, same) ==
    [called |-> TRUE, ing |-> ingAfter, rules |-> rules, sameSlice |-> same]

PruneIngressRulesInPlace(i, pts) ==
    LET blacklist == GetTargetBlacklist(pts)
        kept == pruneRulesFrom(i.Rules.elems, 1, blacklist, <<>>)
    IN IF Len(i.Rules.elems) = 0 \/ Len(blacklist) = 0
       THEN PruneResult(i, i.Rules, ~i.Rules.nil)
       ELSE PruneResult([i EXCEPT !.Rules = Slice(kept)], Slice(kept), TRUE)

PruneIngressRules(i, pts) ==
    IF i.Rules.nil \/ Len(i.Rules.elems) = 0
    THEN PruneResult(i, i.Rules, ~i.Rules.nil)
    ELSE LET blacklist == GetTargetBlacklist(pts)
         IN IF Len(blacklist) = 0
            THEN PruneResult(i, i.Rules, TRUE)
            ELSE LET rules == pruneRulesFrom(i.Rules.elems, 1, blacklist, <<>>)
                 IN PruneResult(i, IF Len(rules) = 0 THEN NilSlice ELSE Slice(rules),
                                FALSE)

\* One call of PruneIngressRules.
Prune ==
    /\ ~pruned.called
    /\ LET r == PruneIngressRules(ing, prohibitedTargets)
       IN /\ pruned' = r
          /\ ing' = r.ing
    /\ UNCHANGED <<ingBefore, prohibitedTargets, buildVars, valVars, lstVars, portVars, lidVars>>

InitPrune ==
    /\ ing \in Ingresses
    /\ ingBefore = ing
    /\ prohibitedTargets \in ProhibitedTargetLists
    /\ pruned = [called |-> FALSE]
    /\ BuildIdle /\ ValIdle /\ LstIdle /\ PortIdle /\ LidIdle

NextPrune == Prune

SpecPrune == InitPrune /\ [][NextPrune]_vars

----------------------------------------------------------------------------
(* Properties of PruneIngressRules                                         *)

InRules  == ingBefore.Rules.elems
OutRules == pruned.rules.elems
Blacklist == GetTargetBlacklist(prohibitedTargets)

\* No HTTP block, or a nil or empty path list.
Pathless(rule) ==
    \/ rule.HTTP.nil
    \/ rule.HTTP.Paths.nil
    \/ Len(rule.HTTP.Paths.elems) = 0

HostBlacklisted(rule) == IsBlacklisted(Target(rule.Host, ""), Blacklist)

\* The paths of the rule whose (host, path) target is not blacklisted.
Survivors(rule) ==
    SelectSeq(rule.HTTP.Paths.elems,
              LAMBDA p : ~IsBlacklisted(Target(rule.Host, p.Path), Blacklist))

\* C5: for every input rule without paths (no HTTP block, or a nil or empty
\* path list) and any non-empty prohibited-target list, the rule is in the
\* output if and only if its host is not blacklisted.
C5_PathlessKeptIffHostAllowed ==
    (pruned.called /\ Len(prohibitedTargets) > 0) =>
        \A i \in 1..Len(InRules) :
            Pathless(InRules[i]) =>
                ((\E j \in 1..Len(OutRules) : OutRules[j] = InRules[i])
                   <=> ~HostBlacklisted(InRules[i]))

\* The rank of i in the set S of indices.
Rank(S, i) == Cardinality({ k \in S : k <= i })

\* C6: the output is the image of a set S of input rules, in input order;
\* an input rule with paths is in S if and only if one of its paths is not
\* blacklisted, and the rule emitted for it has the same host and exactly the
\* paths that are not blacklisted, in their original order.
C6_PathsFiltered ==
    pruned.called =>
        \E S \in SUBSET (1..Len(InRules)) :
            /\ Cardinality(S) = Len(OutRules)
            /\ \A i \in 1..Len(InRules) :
                  ~Pathless(InRules[i]) =>
                      (i \in S <=> Len(Survivors(InRules[i])) > 0)
            /\ \A i \in S :
                  LET out == OutRules[Rank(S, i)]
                  IN /\ out.Host = InRules[i].Host
                     /\ ~Pathless(InRules[i]) =>
                           /\ ~out.HTTP.nil
                           /\ out.HTTP.Paths.elems = Survivors(InRules[i])

\* Two rules with two paths each: the first loses "/fox" and keeps "/bar",
\* the second keeps both.
C6_Witness ==
    /\ pruned.called
    /\ Len(InRules) = 2 /\ Len(OutRules) = 2
    /\ ~Pathless(InRules[1]) /\ ~Pathless(InRules[2])
    /\ InRules[1].HTTP.Paths.elems = <<IngressPath("/fox"), IngressPath("/bar")>>
    /\ OutRules[1].HTTP.Paths.elems = <<IngressPath("/bar")>>
    /\ InRules[2].HTTP.Paths.elems = <<IngressPath("/bar"), IngressPath("/fox")>>
    /\ OutRules[2] = InRules[2]

\* C7 as stated: the input ingress is the same after the call as before it
\* and the surviving rules are returned in a new rule list.
C7_AlwaysNewList ==
    pruned.called => (ing = ingBefore /\ ~pruned.sameSlice)

\* C7 as amended: the input ingress is the same after the call as before it;
\* when the ingress has rules and the blacklist built from the prohibited
\* targets is not empty the surviving rules are returned in a new rule list,
\* and otherwise ing.Spec.Rules itself is returned.
C7_InputUnchanged ==
    pruned.called =>
        /\ ing = ingBefore
        /\ pruned.ing = ingBefore
        /\ (Len(InRules) > 0 /\ Len(Blacklist) > 0) => ~pruned.sameSlice
        /\ (Len(InRules) = 0 \/ Len(Blacklist) = 0) => pruned.rules = ingBefore.Rules

\* A call that removes a path of one rule and a whole second rule.
C7_Witness ==
    /\ pruned.called
    /\ Len(InRules) = 2 /\ Len(OutRules) = 1
    /\ ~Pathless(InRules[1])
    /\ Len(InRules[1].HTTP.Paths.elems) = 2
    /\ Len(OutRules[1].HTTP.Paths.elems) = 1
    /\ ing = ingBefore

Wildcard(pt) == pt.Hostname = "" /\ Len(pt.Paths) = 0

\* C8: when the prohibited-target list contains a target with an empty
\* hostname and no paths, the output rule list is empty.
C8_WildcardRemovesAll ==
    (pruned.called /\ \E i \in 1..Len(prohibitedTargets) : Wildcard(prohibitedTargets[i]))
        => Len(OutRules) = 0

\* A wildcard after another target, against a rule with a nil path list and
\* a rule with paths, neither of which the other target covers.
C8_Witness ==
    /\ pruned.called
    /\ Len(prohibitedTargets) = 2
    /\ prohibitedTargets[1] = [Hostname |-> "a.com", Paths |-> <<"/fox">>]
    /\ Wildcard(prohibitedTargets[2])
    /\ Len(InRules) = 2
    /\ InRules[1] = [Host |-> "b.com", HTTP |-> [nil |-> FALSE, Paths |-> NilSlice]]
    /\ InRules[2].Host = "b.com" /\ ~Pathless(InRules[2])
    /\ Len(OutRules) = 0

----------------------------------------------------------------------------
(* brownfield.ExistingResources.GetBlacklistedListeners                    *)

\* The most listeners of the existing gateway.
MaxListeners == 2

ListenerHosts == {"", "a.com"}

\* An existing listener: its name, its host name and the paths of the
\* routing rules attached to it.
ExistingListeners(name) ==
    { [Name |-> name, HostName |-> h, Paths |-> ps] :
        h \in ListenerHosts, ps \in SUBSET PathNames }

\* Position i of the gateway has name i.
ListenerLists ==
    UNION { { ls \in [1..n -> UNION { ExistingListeners(i) : i \in 1..n }] :
                \A i \in 1..n : ls[i].Name = i } : n \in 0..MaxListeners }

\* NewExistingResources(appGw, prohibitedTargets, nil)
NewExistingResources(listeners, pts) ==
    [Listeners |-> listeners, prohibitedTargets |-> pts]

Names(seq) == { seq[i].Name : i \in 1..Len(seq) }

\* The sets er.getBlacklistedListenersSet() can return.  The function is not
\* part of the sources at hand; the outcomes its tests assert rule out the
\* matching rule of the specification and do not determine another one, so
\* the set is any set of names of existing listeners.
getBlacklistedListenersSet(e) == SUBSET Names(e.Listeners)

RECURSIVE partitionFrom(_, _, _, _, _)
partitionFrom(ls, i, set, blacklisted, nonBlacklisted) ==
    IF i > Len(ls)
    THEN [called |-> TRUE, blacklisted |-> blacklisted, nonBlacklisted |-> nonBlacklisted]
    ELSE IF ls[i].Name \in set
         THEN partitionFrom(ls, i + 1, set, Append(blacklisted, ls[i]), nonBlacklisted)
         ELSE partitionFrom(ls, i + 1, set, blacklisted, Append(nonBlacklisted, ls[i]))

RECURSIVE partitionNoContinue(_, _, _, _, _)
partitionNoContinue(ls, i, set, blacklisted, nonBlacklisted) ==
    IF i > Len(ls)
    THEN [called |-> TRUE, blacklisted |-> blacklisted, nonBlacklisted |-> nonBlacklisted]
    ELSE partitionNoContinue(ls, i + 1, set,
            IF ls[i].Name \in set THEN Append(blacklisted, ls[i]) ELSE blacklisted,
            Append(nonBlacklisted, ls[i]))

GetBlacklistedListenersNoContinue(e, set) ==
    partitionNoContinue(e.Listeners, 1, set, <<>>, <<>>)

\* (blacklisted, nonBlacklisted): the existing listeners split by membership
\* of their name in the blacklisted set.
GetBlacklistedListeners(e, set) ==
    partitionFrom(e.Listeners, 1, set, <<>>, <<>>)

\* One call of er.GetBlacklistedListeners().
CallGetBlacklistedListeners ==
    /\ ~partition.called
    /\ \E set \in getBlacklistedListenersSet(er) :
          partition' = GetBlacklistedListeners(er, set)
    /\ UNCHANGED <<er, buildVars, valVars, pruneVars, portVars, lidVars>>

InitListeners ==
    /\ er \in { NewExistingResources(ls, pts) :
                  ls \in ListenerLists, pts \in ProhibitedTargetLists }
    /\ partition = [called |-> FALSE]
    /\ BuildIdle /\ ValIdle /\ PruneIdle /\ PortIdle /\ LidIdle

NextListeners == CallGetBlacklistedListeners

SpecListeners == InitListeners /\ [][NextListeners]_vars

----------------------------------------------------------------------------
(* The tests of GetBlacklistedListeners (Describe "Test blacklist listeners") *)

\* defaultListener, listener1, listener2, listener3: the four HTTPListeners
\* of fixtures.GetAppGateway(), in their order.
FixtureListenerNames == <<"defaultListener", "listener1", "listener2", "listener3">>

FixtureHosts == {"", "bye.com", "other.com"}

\* fixtures.GetAppGateway(): the fixture is not part of the sources at hand,
\* so each of its listeners has any host name and any paths.
GetAppGateway ==
    { ls \in [1..Len(FixtureListenerNames) ->
                 { [Name |-> n, HostName |-> h, Paths |-> ps] :
                     n \in { FixtureListenerNames[i] :
                                i \in 1..Len(FixtureListenerNames) },
                     h \in FixtureHosts, ps \in SUBSET PathNames }] :
        \A i \in 1..Len(FixtureListenerNames) : ls[i].Name = FixtureListenerNames[i] }

\* tests.Host, a host name the fixture uses.
TestHosts == FixtureHosts \ {""}

\* fixtures.GetAzureIngressProhibitedTargets(): Host "bye.com", Paths [/fox, /bar]
GetAzureIngressProhibitedTargets == <<[Hostname |-> "bye.com", Paths |-> <<"/fox", "/bar">>]>>

\* &ptv1.AzureIngressProhibitedTarget{}: Host '', Path []
WildcardTarget == [Hostname |-> "", Paths |-> <<>>]

\* One test: it builds the existing resources from the fixture gateway and
\* the targets, calls GetBlacklistedListeners and passes when exactly the
\* listeners of the given names are blacklisted.
RunTest(targets, blacklistedNames) ==
    /\ ~partition.called
    /\ er' = NewExistingResources(er.Listeners, targets)
    /\ partition' = GetBlacklistedListeners(er', blacklistedNames)
    /\ UNCHANGED <<buildVars, valVars, pruneVars, portVars, lidVars>>

\* "with a blacklist": listener1, listener2 and listener3 are blacklisted,
\* defaultListener is not.
TestBlacklist ==
    RunTest(GetAzureIngressProhibitedTargets, {"listener1", "listener2", "listener3"})

\* "with a blacklist no paths": only listener2 is blacklisted.
TestBlacklistNoPaths ==
    \E host \in TestHosts :
        RunTest(<<[Hostname |-> host, Paths |-> <<>>]>>, {"listener2"})

\* "with a blacklist with a wildcard": all four listeners are blacklisted.
TestBlacklistWildcard ==
    RunTest(Append(GetAzureIngressProhibitedTargets, WildcardTarget),
            Names(er.Listeners))

InitListenerTests ==
    /\ er \in { NewExistingResources(ls, <<>>) : ls \in GetAppGateway }
    /\ partition = [called |-> FALSE]
    /\ BuildIdle /\ ValIdle /\ PruneIdle /\ PortIdle /\ LidIdle

NextListenerTests ==
    \/ TestBlacklist
    \/ TestBlacklistNoPaths
    \/ TestBlacklistWildcard

SpecListenerTests == InitListenerTests /\ [][NextListenerTests]_vars

----------------------------------------------------------------------------
(* Properties of GetBlacklistedListeners                                   *)

Occurs(x, seq) == \E j \in 1..Len(seq) : seq[j] = x

\* C9: the two lists partition the existing listeners: their lengths add up
\* to the number of existing listeners, every existing listener is in exactly
\* one of them, and they hold nothing else.
C9_Partition ==
    partition.called =>
        /\ Len(partition.blacklisted) + Len(partition.nonBlacklisted) = Len(er.Listeners)
        /\ \A i \in 1..Len(er.Listeners) :
              Occurs(er.Listeners[i], partition.blacklisted)
                  # Occurs(er.Listeners[i], partition.nonBlacklisted)
        /\ \A j \in 1..Len(partition.blacklisted) :
              Occurs(partition.blacklisted[j], er.Listeners)
        /\ \A j \in 1..Len(partition.nonBlacklisted) :
              Occurs(partition.nonBlacklisted[j], er.Listeners)

\* Two listeners, one on each side.
C9_Witness ==
    /\ partition.called
    /\ Len(er.Listeners) = 2
    /\ Len(partition.blacklisted) = 1
    /\ Len(partition.nonBlacklisted) = 1

\* The three cases of the matching rule, as the specification words them.
MatchesEverything(pt)    == pt.Hostname = "" /\ pt.Paths = <<>>
MatchesHost(pt, l)       == pt.Hostname # "" /\ pt.Paths = <<>> /\ l.HostName = pt.Hostname
MatchesHostPaths(pt, l)  ==
    /\ pt.Hostname # "" /\ pt.Paths # <<>>
    /\ l.HostName = pt.Hostname
    /\ l.Paths \cap { pt.Paths[i] : i \in 1..Len(pt.Paths) } # {}

\* The names of the listeners that some target matches under that rule.
Matched(ls, pts) ==
    { ls[i].Name : i \in { j \in 1..Len(ls) :
        \E k \in 1..Len(pts) :
            \/ MatchesEverything(pts[k])
            \/ MatchesHost(pts[k], ls[j])
            \/ MatchesHostPaths(pts[k], ls[j]) } }

\* C10: an existing listener is blacklisted if and only if some prohibited
\* target matches it (a target without hostname and paths matches every
\* listener, one with a hostname and no paths every listener of that host,
\* one with a hostname and paths the listeners of that host whose paths meet
\* the target's); and with a wildcard target in the list every listener is
\* blacklisted.  Membership by this rule depends on no order.
C10_BlacklistedIffMatched ==
    partition.called =>
        /\ Names(partition.blacklisted) = Matched(er.Listeners, er.prohibitedTargets)
        /\ Occurs(WildcardTarget, er.prohibitedTargets) => partition.nonBlacklisted = <<>>

\* Whatever the listeners of the fixture gateway are, the matching rule of C10
\* gives another outcome than the one asserted in "with a blacklist" or in
\* "with a blacklist no paths": the first puts listener1, listener2 and
\* listener3 under host "bye.com", the second needs a host that listener2
\* has alone.
RuleFailsATest ==
    \A host \in TestHosts :
        \/ Matched(er.Listeners, GetAzureIngressProhibitedTargets)
              # {"listener1", "listener2", "listener3"}
        \/ Matched(er.Listeners, <<[Hostname |-> host, Paths |-> <<>>]>>)
              # {"listener2"}

\* The one outcome of the three tests the rule agrees with on every fixture.
RuleAgreesOnWildcard ==
    Matched(er.Listeners, Append(GetAzureIngressProhibitedTargets, WildcardTarget))
        = Names(er.Listeners)

----------------------------------------------------------------------------
(* appGwConfigBuilder.resolvePortName, resolveIstioPortName                *)

\* The most subsets of an Endpoints object and the most ports of a subset.
MaxSubsets == 2
MaxSubsetPorts == 2

\* v1.EndpointPort, reduced to Name and Port
EndpointPorts ==
    { [Name |-> "http", Port |-> 80], [Name |-> "http", Port |-> 8080],
      [Name |-> "https", Port |-> 443] }

\* The port names asked for; no endpoint port is named "grpc".
PortNames == {"http", "https", "grpc"}

\* v1.EndpointSubset, reduced to Ports
EndpointSubsets == UNION { [1..n -> EndpointPorts] : n \in 0..MaxSubsetPorts }

\* (endpoints, err) of GetEndpointsByService: the Endpoints object of the
\* service, nil when the cache has none, and the error of the cache.
Endpoints(subsets) == [err |-> FALSE, nil |-> FALSE, Subsets |-> subsets]
NoEndpoints        == [err |-> FALSE, nil |-> TRUE, Subsets |-> <<>>]
LookupFailed(e)    == [e EXCEPT !.err = TRUE]

Lookups ==
    LET found == { Endpoints(ss) : ss \in UNION { [1..n -> EndpointSubsets] : n \in 0..MaxSubsets } }
    IN found \cup {NoEndpoints, LookupFailed(NoEndpoints),
                   LookupFailed(Endpoints(<<<<[Name |-> "http", Port |-> 80]>>>>))}

\* lines 142-146: the ports of one subset named portName, added to the map
RECURSIVE resolveSubset(_, _, _, _)
resolveSubset(portName, ports, i, resolvedPorts) ==
    IF i > Len(ports) THEN resolvedPorts
    ELSE resolveSubset(portName, ports, i + 1,
            IF ports[i].Name = portName
            THEN resolvedPorts \cup {ports[i].Port}
            ELSE resolvedPorts)

\* lines 141-147: the loop over the subsets
RECURSIVE resolveSubsets(_, _, _, _)
resolveSubsets(portName, subsets, i, resolvedPorts) ==
    IF i > Len(subsets) THEN resolvedPorts
    ELSE resolveSubsets(portName, subsets, i + 1,
                        resolveSubset(portName, subsets[i], 1, resolvedPorts))

resolvePortNameFirstSubset(portName, l) ==
    IF l.err \/ l.nil \/ Len(l.Subsets) = 0 THEN {}
    ELSE resolveSubset(portName, l.Subsets[1], 1, {})

\* The key set of the map returned, l being what the cache returns for
\* backendID.serviceKey().
resolvePortName(portName, l) ==
    IF l.err THEN {}
    ELSE IF l.nil THEN {}
    ELSE resolveSubsets(portName, l.Subsets, 1, {})

\* The same for destinationID.serviceKey().
resolveIstioPortName(portName, l) ==
    IF l.err THEN {}
    ELSE IF l.nil THEN {}
    ELSE resolveSubsets(portName, l.Subsets, 1, {})

ResolvePortName ==
    /\ ~resolved.called
    /\ \E portName \in PortNames :
          resolved' = [called |-> TRUE, fn |-> "resolvePortName", portName |-> portName,
                       ports |-> resolvePortName(portName, lookup)]
    /\ UNCHANGED <<lookup, buildVars, valVars, pruneVars, lstVars, lidVars>>

ResolveIstioPortName ==
    /\ ~resolved.called
    /\ \E portName \in PortNames :
          resolved' = [called |-> TRUE, fn |-> "resolveIstioPortName", portName |-> portName,
                       ports |-> resolveIstioPortName(portName, lookup)]
    /\ UNCHANGED <<lookup, buildVars, valVars, pruneVars, lstVars, lidVars>>

InitPorts ==
    /\ lookup \in Lookups
    /\ resolved = [called |-> FALSE]
    /\ BuildIdle /\ ValIdle /\ PruneIdle /\ LstIdle /\ LidIdle

NextPorts == ResolvePortName \/ ResolveIstioPortName

SpecPorts == InitPorts /\ [][NextPorts]_vars

\* The ports named portName anywhere in the cached Endpoints object.
NamedPorts(portName, l) ==
    UNION { { l.Subsets[i][j].Port :
                j \in { k \in 1..Len(l.Subsets[i]) : l.Subsets[i][k].Name = portName } } :
              i \in 1..Len(l.Subsets) }

\* C11: resolvePortName returns exactly the set of the ports, over all subsets
\* of the service's cached Endpoints object, whose name is portName; it
\* returns the empty set when the cache lookup fails, when there is no
\* Endpoints object and when no port has that name; and resolveIstioPortName
\* returns the same set for the same cache entry and port name.
C11_ResolvedPorts ==
    resolved.called =>
        /\ resolved.ports =
              IF lookup.err \/ lookup.nil THEN {} ELSE NamedPorts(resolved.portName, lookup)
        /\ (lookup.err \/ lookup.nil \/ NamedPorts(resolved.portName, lookup) = {})
              => resolved.ports = {}
        /\ resolveIstioPortName(resolved.portName, lookup)
              = resolvePortName(resolved.portName, lookup)

\* Port 80 is named "http" in both subsets and port 8080 in the second; the
\* port named "https" is left out.
C11_Witness ==
    /\ resolved.called
    /\ resolved.fn = "resolvePortName"
    /\ resolved.portName = "http"
    /\ ~lookup.err /\ ~lookup.nil
    /\ lookup.Subsets = << <<[Name |-> "http", Port |-> 80], [Name |-> "https", Port |-> 443]>>,
                           <<[Name |-> "http", Port |-> 80], [Name |-> "http", Port |-> 8080]>> >>
    /\ resolved.ports = {80, 8080}

\* The cache lookup failed.
C11_WitnessLookupFailed ==
    resolved.called /\ lookup.err /\ ~lookup.nil /\ resolved.ports = {}

----------------------------------------------------------------------------
(* generateListenerID                                                      *)

\* The most calls of generateListenerID in one run.
MaxListenerIDs == 2

\* n.ApplicationGatewayProtocol
Protocols == {"Http", "Https"}

\* *int32: nil or a port
NoOverride == [nil |-> TRUE]
Override(port) == [nil |-> FALSE, port |-> port]
OverridePorts == {NoOverride, Override(80), Override(8443)}

\* The rules listener identifiers are generated for: of either host, without
\* HTTP block or with one path.
ListenerRules ==
    { r \in IngressRules :
        \/ r.HTTP.nil
        \/ /\ ~r.HTTP.nil
           /\ r.HTTP.Paths.elems = <<IngressPath("/fox")>> }

generateListenerIDHTTPSLast(rule, protocol, overridePort) ==
    LET port1 == IF ~overridePort.nil THEN overridePort.port ELSE 80
        port2 == IF protocol = "Https" THEN 443 ELSE port1
    IN [FrontendPort |-> port2, HostName |-> rule.Host]

\* listenerIdentifier{FrontendPort, HostName}
generateListenerID(rule, protocol, overridePort) ==
    LET port1 == IF protocol = "Https" THEN 443 ELSE 80
        port2 == IF ~overridePort.nil THEN overridePort.port ELSE port1
    IN [FrontendPort |-> port2, HostName |-> rule.Host]

GenerateListenerID ==
    /\ Len(listenerIDs) < MaxListenerIDs
    /\ \E rule \in ListenerRules, protocol \in Protocols, overridePort \in OverridePorts :
          listenerIDs' = Append(listenerIDs,
              [rule |-> rule, protocol |-> protocol, overridePort |-> overridePort,
               id |-> generateListenerID(rule, protocol, overridePort)])
    /\ UNCHANGED <<buildVars, valVars, pruneVars, lstVars, portVars>>

InitListenerIDs ==
    /\ listenerIDs = <<>>
    /\ BuildIdle /\ ValIdle /\ PruneIdle /\ LstIdle /\ PortIdle

NextListenerIDs == GenerateListenerID

SpecListenerIDs == InitListenerIDs /\ [][NextListenerIDs]_vars

\* The frontend port a call resolves to: the override port when one is
\* supplied, else 443 for HTTPS and 80 for any other protocol.
ResolvedFrontendPort(c) ==
    IF c.overridePort # NoOverride THEN c.overridePort.port
    ELSE IF c.protocol = "Https" THEN 443
    ELSE 80

\* C12: the listener identifier has the resolved frontend port (the override
\* port when one is supplied, else 443 for HTTPS and 80 otherwise) and the
\* rule's host, and nothing else; two calls for rules with the same host and
\* the same resolved frontend port yield equal identifiers, so that there is
\* exactly one identifier per (port, host) pair.
C12_ListenerIDOfPortAndHost ==
    /\ \A i \in 1..Len(listenerIDs) :
          LET c == listenerIDs[i]
          IN c.id = [FrontendPort |-> ResolvedFrontendPort(c), HostName |-> c.rule.Host]
    /\ \A i, j \in 1..Len(listenerIDs) :
          LET c == listenerIDs[i]
              d == listenerIDs[j]
          IN (c.rule.Host = d.rule.Host /\ ResolvedFrontendPort(c) = ResolvedFrontendPort(d))
                => c.id = d.id
    /\ Cardinality({ listenerIDs[i].id : i \in 1..Len(listenerIDs) })
          = Cardinality({ <<ResolvedFrontendPort(listenerIDs[i]), listenerIDs[i].rule.Host>> :
                            i \in 1..Len(listenerIDs) })

\* Two different rules of one host, one HTTPS with override port 80 and one
\* HTTP without override, collapse onto one identifier.
C12_Witness ==
    /\ Len(listenerIDs) = 2
    /\ listenerIDs[1].rule # listenerIDs[2].rule
    /\ listenerIDs[1].rule.Host = "a.com" /\ listenerIDs[2].rule.Host = "a.com"
    /\ listenerIDs[1].protocol = "Https" /\ listenerIDs[1].overridePort = Override(80)
    /\ listenerIDs[2].protocol = "Http" /\ listenerIDs[2].overridePort = NoOverride
    /\ listenerIDs[1].id = listenerIDs[2].id
    /\ listenerIDs[1].id = [FrontendPort |-> 80, HostName |-> "a.com"]

====
